---- MODULE Spec2Model ----
(***************************************************************************)
(* duckhub: the dependency graph (core/graph.rs), the pipeline scheduler   *)
(* (core/pipeline.rs) and the adapter/model API handlers that mutate the   *)
(* graph (api/adapter.rs, api/model.rs).                                   *)
(***************************************************************************)
EXTENDS Integers, Sequences, FiniteSets, TLC

\* ------------------------------------------------------------------ bounds
\* Node / task names, in the order String::cmp gives them.
NameSeq == <<"a", "b", "c">>
\* num_cpus::get() of the machine the run executes on.
NumWorkers == 2
\* Longest dependency list of a node (tables in one model's FROM clause).
MaxDeps == 2
\* Longest list of files a file adapter's pattern matches.
MaxFiles == 2
\* Longest plaintext (in characters) given to encrypt.
MaxPlain == 2
\* Number of values the random nonce and the key material are drawn from.
NumNonces == 2
NumKeys == 2
\* Number of API requests in flight at once in the lock-level view.
NumRequests == 2
\* Number of API requests served while the modelled run is in flight.
MaxApiCalls == 1
\* Largest reading of the clock in the graph-only specification.
MaxTime == 1
MaxCrudCalls == 3

Names == {NameSeq[i] : i \in 1..Len(NameSeq)}
Workers == 1..NumWorkers

Range(s) == {s[i] : i \in 1..Len(s)}
Rank(n) == CHOOSE i \in 1..Len(NameSeq) : NameSeq[i] = n

\* Option<T>
None == <<>>
Some(x) == <<x>>

\* Duplicate-free name lists of length at most MaxDeps.
DepLists ==
  {s \in UNION {[1..k -> Names] : k \in 0..MaxDeps} :
      \A i, j \in 1..Len(s) : i # j => s[i] # s[j]}
\* One list per set of names (ascending).
CanonDepLists ==
  {s \in DepLists : \A i, j \in 1..Len(s) : i < j => Rank(s[i]) < Rank(s[j])}

\* ------------------------------------------------------- core/graph.rs
Node(name, updated_at, dependencies) ==
  [name |-> name, updated_at |-> updated_at, dependencies |-> dependencies]

Has_node(g, name) == name \in DOMAIN g

Update_dependencies(g, name, deps) ==
  IF name \in DOMAIN g
    THEN [g EXCEPT ![name].dependencies = deps]
    ELSE g

Create_node(g, name, deps) ==
  Update_dependencies(
    [n \in DOMAIN g \cup {name} |->
        IF n = name THEN Node(name, None, <<>>) ELSE g[n]],
    name, deps)

\* Variant: delete_node also drops the name from the other dependency lists.
Delete_node_scrub(g, name) ==
  [n \in DOMAIN g \ {name} |->
     [g[n] EXCEPT !.dependencies = SelectSeq(@, LAMBDA d : d # name)]]

Delete_node(g, name) == [n \in DOMAIN g \ {name} |-> g[n]]

Reset_updated_at(g, name) ==
  IF name \in DOMAIN g
    THEN [g EXCEPT ![name].updated_at = None]
    ELSE g

\* Variant: update() inserts the node when it is missing.
Update_or_insert(g, name, t) ==
  [n \in DOMAIN g \cup {name} |->
      IF n = name
        THEN Node(name, Some(t), IF name \in DOMAIN g THEN g[name].dependencies ELSE <<>>)
        ELSE g[n]]

Update(g, name, t) ==
  IF name \in DOMAIN g
    THEN [g EXCEPT ![name].updated_at = Some(t)]
    ELSE g

Set_current_time(g, name, t) ==
  IF name \in DOMAIN g
    THEN [g EXCEPT ![name].updated_at = Some(t)]
    ELSE g

\* result.sort(): insertion sort by String order.
RECURSIVE SortInsert(_, _)
SortInsert(x, s) ==
  IF s = <<>> THEN <<x>>
  ELSE IF Rank(x) <= Rank(Head(s)) THEN <<x>> \o s
  ELSE <<Head(s)>> \o SortInsert(x, Tail(s))

RECURSIVE Sort(_)
Sort(s) == IF s = <<>> THEN <<>> ELSE SortInsert(Head(s), Sort(Tail(s)))

\* The names of the nodes that list `name` among their dependencies, in the
\* order the node map is walked (any order: downstream() sorts its result).
Direct_downstream(g, name) ==
  LET hit == {g[k].name : k \in {k \in DOMAIN g : name \in Range(g[k].dependencies)}}
  IN  SelectSeq(NameSeq, LAMBDA n : n \in hit)

\* all_downstream(name, &mut visited): returns the list built and the
\* visited set as the recursion leaves it.
RECURSIVE All_downstream(_, _, _)
RECURSIVE Walk_downstream(_, _, _, _)
Walk_downstream(g, direct, visited, acc) ==
  IF direct = <<>> THEN [out |-> acc, visited |-> visited]
  ELSE LET d == Head(direct) IN
       IF d \in visited
         THEN Walk_downstream(g, Tail(direct), visited, acc)
         ELSE LET nested == All_downstream(g, d, visited \cup {d})
              IN  Walk_downstream(g, Tail(direct), nested.visited,
                                  acc \o <<d>> \o nested.out)

All_downstream(g, name, visited) ==
  Walk_downstream(g, Direct_downstream(g, name), visited, <<>>)

\* Variant: downstream() stops at the direct dependents.
Downstream_direct_only(g, name) == Sort(Direct_downstream(g, name))

Downstream(g, name) == Sort(All_downstream(g, name, {}).out)

\* all_upstream(name, &mut visited)
RECURSIVE All_upstream(_, _, _)
RECURSIVE Walk_upstream(_, _, _, _)
Walk_upstream(g, deps, visited, acc) ==
  IF deps = <<>> THEN [out |-> acc, visited |-> visited]
  ELSE LET d == Head(deps) IN
       IF d \in visited
         THEN Walk_upstream(g, Tail(deps), visited, acc)
         ELSE LET nested == All_upstream(g, d, visited \cup {d})
              IN  Walk_upstream(g, Tail(deps), nested.visited,
                                acc \o <<d>> \o nested.out)

\* Variant: all_upstream follows only the dependencies that have a node.
All_upstream_existing(g, name, visited) ==
  IF name \in DOMAIN g
    THEN Walk_upstream(g, SelectSeq(g[name].dependencies, LAMBDA d : d \in DOMAIN g),
                       visited, <<>>)
    ELSE [out |-> <<>>, visited |-> visited]

All_upstream(g, name, visited) ==
  IF name \in DOMAIN g
    THEN Walk_upstream(g, g[name].dependencies, visited, <<>>)
    ELSE [out |-> <<>>, visited |-> visited]

\* Variant: upstream() starts with the name itself in the visited set.
Upstream_seeded(g, name) == All_upstream(g, name, {name}).out

Upstream(g, name) == All_upstream(g, name, {}).out

RECURSIVE Reset_all(_, _)
Reset_all(g, names) ==
  IF names = <<>> THEN g
  ELSE Reset_all(Reset_updated_at(g, Head(names)), Tail(names))

\* Variant: update_node() resets the node and its direct dependents only.
Update_node_children(g, name) ==
  Reset_all(Reset_updated_at(g, name), Direct_downstream(g, name))

Update_node(g, name) ==
  LET g1 == Reset_updated_at(g, name)
  IN  Reset_all(g1, Downstream(g1, name))

\* Variant: dependent_tables answers a parse failure with an empty table list.
Dependent_tables_lenient(sql) ==
  [ok |-> TRUE, tables |-> IF sql.valid THEN sql.from ELSE <<>>]

\* dependent_tables(sql): a request's SQL either fails to parse or yields the
\* tables of its FROM clause.
Dependent_tables(sql) ==
  IF sql.valid THEN [ok |-> TRUE, tables |-> sql.from]
               ELSE [ok |-> FALSE, tables |-> <<>>]

\* ------------------------------- core/config/secret.rs, api/connection.rs
\* SecretField::PlainText { value } and SecretField::Encrypted { value }: the
\* ciphertext of p is written <<"sealed", p>>.
PlainText(value) == [type |-> "plain", value |-> value]
Encrypted(value) == [type |-> "encrypted", value |-> value]

SecretField_encrypt(plaintext) == Encrypted(<<"sealed", plaintext>>)

SecretField_load(field) ==
  IF field.type = "plain" THEN field ELSE PlainText(field.value[2])

\* ConnectionConfig: its credential field, None for the kinds without one.
ConnectionConfig(secret) == [secret |-> secret]

Encrypt_connection_secrets(connection) ==
  IF connection.secret # None /\ connection.secret[1].type = "plain"
    THEN ConnectionConfig(Some(SecretField_encrypt(connection.secret[1].value)))
    ELSE connection

Decrypt_connection_secrets(connection) ==
  IF connection.secret # None
    THEN ConnectionConfig(Some(SecretField_load(connection.secret[1])))
    ELSE connection

\* Result<T>
Ok(value) == [ok |-> TRUE, value |-> value]
Err(error) == [ok |-> FALSE, error |-> error]

\* The key size encrypt_string and decrypt_string require, and the nonce and
\* tag lengths of AES-256-GCM.
KEY_LEN == 32
NONCE_LEN == 12
TAG_LEN == 16

\* A &str as its characters: one of one byte and one of two bytes in UTF-8.
Chars == {"x", "U+00E9"}
Plaintexts == UNION {[1..k -> Chars] : k \in 0..MaxPlain}

\* A u8 of a message or a nonce.
Byte(n) == <<"byte", n>>

\* str::as_bytes
RECURSIVE As_bytes(_)
As_bytes(str) ==
  IF str = <<>> THEN <<>>
  ELSE (IF Head(str) = "x" THEN <<Byte(120)>> ELSE <<Byte(195), Byte(169)>>) \o As_bytes(Tail(str))

\* String::from_utf8
RECURSIVE From_utf8(_)
From_utf8(bytes) ==
  IF bytes = <<>> THEN Ok(<<>>)
  ELSE IF Head(bytes) = Byte(120)
    THEN LET rest == From_utf8(Tail(bytes))
         IN  IF rest.ok THEN Ok(<<"x">> \o rest.value) ELSE rest
  ELSE IF Head(bytes) = Byte(195) /\ Len(bytes) >= 2 /\ bytes[2] = Byte(169)
    THEN LET rest == From_utf8(Tail(Tail(bytes)))
         IN  IF rest.ok THEN Ok(<<"U+00E9">> \o rest.value) ELSE rest
  ELSE Err("Failed to convert decrypted data to string")

\* The content of the file .secret.key: absent, or `len` bytes of the key
\* material `id`.
KeyBytes(id, len) == [i \in 1..len |-> id]
KeyFiles ==
  {None} \cup {Some(KeyBytes(id, len)) : id \in 1..NumKeys,
                  len \in {0, KEY_LEN - 1, KEY_LEN, KEY_LEN + 1}}

\* rng.fill(&mut nonce_bytes)
Nonces == {[i \in 1..NONCE_LEN |-> Byte(r)] : r \in 1..NumNonces}

\* UnboundKey::new(&AES_256_GCM, key_bytes)
UnboundKey_new(key_bytes) ==
  IF Len(key_bytes) = KEY_LEN THEN Ok(key_bytes) ELSE Err("unspecified")

\* AES-256-GCM as ring computes it, symbolically: byte i of the ciphertext
\* is byte i of the message under the key stream of (key, nonce), and the
\* tag authenticates the ciphertext under (key, nonce).
Gcm_ciphertext(key, nonce, message) ==
  [i \in 1..Len(message) |-> <<"ct", key[1], nonce[1], i, message[i]>>]
Gcm_tag(key, nonce, ciphertext) ==
  [i \in 1..TAG_LEN |-> <<"tag", key[1], nonce[1], i, Len(ciphertext), ciphertext>>]

\* sealing_key.seal_in_place_separate_tag(Aad::empty(), &mut message)
Seal_in_place_separate_tag(key, nonce, message) ==
  LET ciphertext == Gcm_ciphertext(key, nonce, message)
  IN  [message |-> ciphertext, tag |-> Gcm_tag(key, nonce, ciphertext)]

\* opening_key.open_in_place(Aad::empty(), &mut in_out): the last TAG_LEN
\* bytes are the tag; the plaintext is returned if the tag verifies.
Open_in_place(key, nonce, in_out) ==
  IF Len(in_out) < TAG_LEN THEN Err("unspecified")
  ELSE LET ciphertext == SubSeq(in_out, 1, Len(in_out) - TAG_LEN)
           tag == SubSeq(in_out, Len(in_out) - TAG_LEN + 1, Len(in_out))
       IN  IF tag = Gcm_tag(key, nonce, ciphertext)
             THEN Ok([i \in 1..Len(ciphertext) |-> ciphertext[i][5]])
             ELSE Err("unspecified")

\* A String holding base64 text: of which bytes, or not valid base64.
BASE64_encode(bytes) == [valid |-> TRUE, bytes |-> bytes]
BASE64_decode(str) ==
  IF str.valid THEN Ok(str.bytes) ELSE Err("Failed to decode encrypted data")

\* Variant: only a key file that is too short is refused by the size check.
Key_size_invalid_short(key_bytes) == Len(key_bytes) < KEY_LEN

\* key_bytes.len() != 32
Key_size_invalid(key_bytes) == Len(key_bytes) # KEY_LEN

\* SecretField::encrypt_string, with the nonce the generator gave.
Encrypt_string(plaintext, key_file, nonce_bytes) ==
  IF key_file = None THEN Err("Failed to read encryption key")
  ELSE LET key_bytes == key_file[1] IN
  IF Key_size_invalid(key_bytes) THEN Err("Invalid key size")
  ELSE LET unbound_key == UnboundKey_new(key_bytes) IN
  IF ~unbound_key.ok THEN Err("Failed to create encryption key")
  ELSE LET sealed == Seal_in_place_separate_tag(unbound_key.value, nonce_bytes,
                                                As_bytes(plaintext))
           combined == nonce_bytes \o sealed.message \o sealed.tag
       IN  Ok(BASE64_encode(combined))

\* Variant: data no longer than a nonce and a tag is refused as too short.
Too_short_strict(combined) == Len(combined) <= NONCE_LEN + TAG_LEN

\* combined.len() < NONCE_LEN + alg.tag_len()
Too_short(combined) == Len(combined) < NONCE_LEN + TAG_LEN

\* SecretField::decrypt_string
Decrypt_string(encrypted, key_file) ==
  IF key_file = None THEN Err("Failed to read encryption key")
  ELSE LET key_bytes == key_file[1] IN
  IF Key_size_invalid(key_bytes) THEN Err("Invalid key size")
  ELSE LET combined == BASE64_decode(encrypted) IN
  IF ~combined.ok THEN combined
  ELSE IF Too_short(combined.value) THEN Err("Invalid encrypted data: too short")
  ELSE LET nonce_array == SubSeq(combined.value, 1, NONCE_LEN)
           ciphertext_and_tag == SubSeq(combined.value, NONCE_LEN + 1,
                                        Len(combined.value))
           unbound_key == UnboundKey_new(key_bytes)
       IN
  IF ~unbound_key.ok THEN Err("Failed to create decryption key")
  ELSE LET plaintext == Open_in_place(unbound_key.value, nonce_array,
                                      ciphertext_and_tag) IN
  IF ~plaintext.ok THEN Err("Decryption failed")
  ELSE From_utf8(plaintext.value)

\* ------------------------------------ core/adapter/*.rs, core/ducklake.rs
\* The lake as the adapters see it: its tables and the source databases
\* attached to it.
Lake_new == [tables |-> {}, attached |-> {}]

\* What an adapter call returns: the lake it leaves, its Result and the
\* lake and adapter operations it made, in order.
LakeResult(lake, result, calls) == [lake |-> lake, result |-> result, calls |-> calls]

\* Whether an operation of the engine succeeds is the engine's choice.
Outcome == {"ok", "err"}

\* DuckLake::create_table_from_query: CREATE OR REPLACE TABLE .. AS (..)
Create_table_from_query(lake, table_name, outcome) ==
  IF outcome = "ok"
    THEN [lake |-> [lake EXCEPT !.tables = @ \cup {table_name}], result |-> Ok(<<>>)]
    ELSE [lake |-> lake, result |-> Err("Failed to create table")]

\* build_import_query: the format is one of csv, parquet, json, or not.
Build_import_query(format, files) ==
  IF files = <<>> THEN Err("No files to load")
  ELSE IF format = "ok" THEN Ok(<<"SELECT", files>>)
  ELSE Err("Unsupported format")

\* Variant: import_files builds the query whatever the list of files is.
Import_files_unguarded(lake, kind, table_name, files, o) ==
  LET pre == IF kind = "s3" THEN <<"configure_s3_connection">> ELSE <<>> IN
  IF kind = "s3" /\ o.configure = "err"
    THEN LakeResult(lake, Err("Failed to configure S3"), pre)
  ELSE LET query == Build_import_query(o.format, files) IN
  IF ~query.ok THEN LakeResult(lake, query, pre)
  ELSE LET created == Create_table_from_query(lake, table_name, o.create)
       IN  LakeResult(created.lake, created.result,
                      pre \o <<"create_table_from_query">>)

\* LocalFileAdapter::import_files and S3FileAdapter::import_files (which
\* configures the S3 connection of the lake first).
Import_files(lake, kind, table_name, files, o) ==
  LET pre == IF kind = "s3" THEN <<"configure_s3_connection">> ELSE <<>> IN
  IF files = <<>> THEN LakeResult(lake, Ok(<<>>), <<>>)
  ELSE IF kind = "s3" /\ o.configure = "err"
    THEN LakeResult(lake, Err("Failed to configure S3"), pre)
  ELSE LET query == Build_import_query(o.format, files) IN
  IF ~query.ok THEN LakeResult(lake, query, pre)
  ELSE LET created == Create_table_from_query(lake, table_name, o.create)
       IN  LakeResult(created.lake, created.result,
                      pre \o <<"create_table_from_query">>)

\* Adapter::file_import; `listing` is what list_files returned.
File_import(lake, kind, source, table_name, listing, o) ==
  IF source # "file" THEN LakeResult(lake, Err("Adapter source is not a file"), <<>>)
  ELSE IF ~listing.ok THEN LakeResult(lake, listing, <<"list_files">>)
  ELSE LET imported == Import_files(lake, kind, table_name, listing.value, o)
       IN  LakeResult(imported.lake, imported.result,
                      <<"list_files">> \o imported.calls)

\* MysqlAdapter::ALIAS, PostgresqlAdapter::ALIAS
Alias(kind) == IF kind = "mysql" THEN "mysql_db" ELSE "postgres_db"

\* DatabaseAdapter::attach: load the extension and, but for SQLite, ATTACH
\* the database under the alias.
Attach(lake, kind, outcome) ==
  IF outcome = "err" THEN [lake |-> lake, result |-> Err("Failed to attach")]
  ELSE IF kind = "sqlite" THEN [lake |-> lake, result |-> Ok(<<>>)]
  ELSE [lake |-> [lake EXCEPT !.attached = @ \cup {Alias(kind)}], result |-> Ok(<<>>)]

\* DatabaseAdapter::detach: DETACH the alias; nothing for SQLite.
Detach(lake, kind, outcome) ==
  IF kind = "sqlite" THEN [lake |-> lake, result |-> Ok(<<>>)]
  ELSE IF outcome = "err" THEN [lake |-> lake, result |-> Err("Failed to detach")]
  ELSE [lake |-> [lake EXCEPT !.attached = @ \ {Alias(kind)}], result |-> Ok(<<>>)]

\* DatabaseAdapter::table_exists: SQLite answers false when its query fails.
Table_exists(kind, outcome) ==
  IF outcome = "yes" THEN Ok(TRUE)
  ELSE IF outcome = "no" \/ kind = "sqlite" THEN Ok(FALSE)
  ELSE Err("Failed to validate table existence")

\* Adapter::database_import
Database_import(lake, kind, source, table_name, o) ==
  LET attached == Attach(lake, kind, o.attach) IN
  IF ~attached.result.ok THEN LakeResult(attached.lake, attached.result, <<"attach">>)
  ELSE IF source # "database"
    THEN LakeResult(attached.lake, Err("Adapter source is not a database"), <<"attach">>)
  ELSE LET exists == Table_exists(kind, o.exists) IN
  IF ~exists.ok THEN LakeResult(attached.lake, exists, <<"attach", "table_exists">>)
  ELSE IF exists.value
    THEN LET imported == Create_table_from_query(attached.lake, table_name, o.create) IN
         IF ~imported.result.ok
           THEN LakeResult(imported.lake, imported.result,
                           <<"attach", "table_exists", "import_table">>)
           ELSE LET detached == Detach(imported.lake, kind, o.detach)
                IN  LakeResult(detached.lake, detached.result,
                               <<"attach", "table_exists", "import_table", "detach">>)
    ELSE LET detached == Detach(attached.lake, kind, o.detach)
         IN  LakeResult(detached.lake,
                        IF detached.result.ok
                          THEN Err("Source table does not exist in the database")
                          ELSE detached.result,
                        <<"attach", "table_exists", "detach">>)

\* ----------------------------------------------------- core/pipeline.rs
Waiting == "waiting"
Running == "running"
Completed == "completed"
Failed == "failed"

\* format!("{error:?}") of the error the executor returned.
ExecutorError == "executor error"
UpstreamFailed == "Upstream task failed"

\* Utc::now() as stored in a started_at / completed_at field: the fields are
\* kept as set or unset, the instant itself is not.
Utc_now == "now"

TaskStatus_new ==
  [phase |-> Waiting, started_at |-> None, completed_at |-> None, error |-> None]

\* Variant: start() leaves the phase as it was.
TaskStatus_start_unmarked(ts) == ts

TaskStatus_start(ts) ==
  [ts EXCEPT !.phase = Running, !.started_at = Some(Utc_now)]

TaskStatus_complete(ts) ==
  [ts EXCEPT !.phase = Completed, !.completed_at = Some(Utc_now), !.error = None]

\* Variant: fail() stamps completed_at as complete() does.
TaskStatus_fail_stamped(ts, error_message) ==
  [ts EXCEPT !.phase = Failed, !.completed_at = Some(Utc_now),
             !.error = Some(error_message)]

TaskStatus_fail(ts, error_message) ==
  [ts EXCEPT !.phase = Failed, !.error = Some(error_message)]

Pipeline_new ==
  [phase |-> Waiting, started_at |-> None, completed_at |-> None,
   tasks |-> [n \in {} |-> TaskStatus_new]]

Pipeline_start(p, tasks) ==
  [p EXCEPT !.phase = Running, !.started_at = Some(Utc_now),
            !.completed_at = None, !.tasks = [n \in tasks |-> TaskStatus_new]]

\* Pipeline::save: the run's file holds every field of the Pipeline but the
\* file path.
Pipeline_save(p) ==
  Some([phase |-> p.phase, started_at |-> p.started_at,
        completed_at |-> p.completed_at, tasks |-> p.tasks])

\* Variant: complete() reports a run with a failed task as failed.
Pipeline_complete_failing(p) ==
  [p EXCEPT !.phase = IF \E n \in DOMAIN p.tasks : p.tasks[n].phase = Failed
                        THEN Failed ELSE Completed,
            !.completed_at = Some(Utc_now)]

Pipeline_complete(p) ==
  [p EXCEPT !.phase = Completed, !.completed_at = Some(Utc_now)]

Waiting_task(p) == {n \in DOMAIN p.tasks : p.tasks[n].phase = Waiting}

\* Variant: a dependency that is not a task of the run counts as completed.
All_deps_completed_lenient(p, dependencies) ==
  \A i \in 1..Len(dependencies) :
     IF dependencies[i] \in DOMAIN p.tasks
       THEN p.tasks[dependencies[i]].phase = Completed
       ELSE TRUE

All_deps_completed(p, dependencies) ==
  \A i \in 1..Len(dependencies) :
     IF dependencies[i] \in DOMAIN p.tasks
       THEN p.tasks[dependencies[i]].phase = Completed
       ELSE FALSE

Start_task(p, name) ==
  IF name \in DOMAIN p.tasks
    THEN [p EXCEPT !.tasks[name] = TaskStatus_start(@)]
    ELSE p

Complete_task(p, name) ==
  IF name \in DOMAIN p.tasks
    THEN [p EXCEPT !.tasks[name] = TaskStatus_complete(@)]
    ELSE p

\* Variant: fail_task inserts a failed status for a name that is not a task.
Fail_task_or_insert(p, name, error_message) ==
  [p EXCEPT !.tasks = [n \in DOMAIN p.tasks \cup {name} |->
                         IF n = name
                           THEN TaskStatus_fail(IF name \in DOMAIN p.tasks
                                                  THEN p.tasks[name]
                                                  ELSE TaskStatus_new,
                                                error_message)
                           ELSE p.tasks[n]]]

Fail_task(p, name, error_message) ==
  IF name \in DOMAIN p.tasks
    THEN [p EXCEPT !.tasks[name] = TaskStatus_fail(@, error_message)]
    ELSE p

\* The dependency list pop_task reads for a waiting task.
Task_dependencies(g, task_name) ==
  IF task_name \in DOMAIN g THEN g[task_name].dependencies ELSE <<>>

\* Variant: pop_task gives up when the first waiting task is not ready.
Ready_first_waiting(g, p) ==
  LET waiting == SelectSeq(NameSeq, LAMBDA n : n \in DOMAIN p.tasks /\ p.tasks[n].phase = Waiting)
  IN  IF waiting # <<>> /\ All_deps_completed(p, IF Head(waiting) \in DOMAIN g
                                                   THEN g[Head(waiting)].dependencies
                                                   ELSE <<>>)
        THEN {Head(waiting)}
        ELSE {}

\* The waiting tasks pop_task may return: the scan walks a HashMap, so any
\* waiting task whose dependencies are all completed can be the first hit.
Ready(g, p) ==
  {n \in Waiting_task(p) : All_deps_completed(p, Task_dependencies(g, n))}

\* The three Arc<Mutex<..>> shared by the handlers and the workers.
Mutexes == {"config", "graph", "pipeline"}

\* The tasks of the lock-level view: the workers of a run and the tasks
\* serving requests.
LockTasks ==
  {<<"worker", w>> : w \in Workers} \cup {<<"request", r>> : r \in 1..NumRequests}

\* What each function does with the mutexes, in order: lock().await, the
\* drop of a guard, and the long operations in between.
\* pop_task: the pipeline, then the graph; the guards drop in reverse.
Pop_task_locks ==
  <<<<"lock", "pipeline">>, <<"lock", "graph">>,
    <<"unlock", "graph">>, <<"unlock", "pipeline">>>>

\* Executor::run: the config guard lives until import / transform returned.
Executor_run_locks ==
  <<<<"lock", "config">>, <<"long", "execute">>, <<"unlock", "config">>>>

\* Variant: complete_task takes the graph before the pipeline.
Complete_task_locks_graph_first ==
  <<<<"lock", "graph">>, <<"lock", "pipeline">>,
    <<"unlock", "pipeline">>, <<"unlock", "graph">>>>

\* Worker::complete_task
Complete_task_locks ==
  <<<<"lock", "pipeline">>, <<"lock", "graph">>,
    <<"unlock", "graph">>, <<"unlock", "pipeline">>>>

\* Worker::fail_task with one downstream task: each guard is dropped
\* before the next lock.
Fail_task_locks ==
  <<<<"lock", "pipeline">>, <<"unlock", "pipeline">>,
    <<"lock", "graph">>, <<"unlock", "graph">>,
    <<"lock", "pipeline">>, <<"unlock", "pipeline">>>>

\* update_model, and every handler that changes the graph: the config, then
\* the graph, both held to the end.
Handler_locks ==
  <<<<"lock", "config">>, <<"lock", "graph">>,
    <<"unlock", "graph">>, <<"unlock", "config">>>>

\* run_pipeline_node, then run_pipeline's start of the run.
Run_pipeline_node_locks ==
  <<<<"lock", "config">>, <<"lock", "graph">>, <<"long", "from_config">>,
    <<"unlock", "config">>, <<"unlock", "graph">>,
    <<"lock", "pipeline">>, <<"unlock", "pipeline">>>>

\* test_schema and get_schema: the config guard lives to the end.
Schema_locks ==
  <<<<"lock", "config">>, <<"long", "from_config">>, <<"long", "schema">>,
    <<"unlock", "config">>>>

\* The code a task runs: a worker's turn of its loop, with the executor
\* returning Ok or Err, or a request's handler.
Program(prog) ==
  CASE prog = "worker_ok" -> Pop_task_locks \o Executor_run_locks \o Complete_task_locks
    [] prog = "worker_err" -> Pop_task_locks \o Executor_run_locks \o Fail_task_locks
    [] prog = "update_model" -> Handler_locks
    [] prog = "run_pipeline_node" -> Run_pipeline_node_locks
    [] prog = "test_schema" -> Schema_locks
    [] OTHER -> <<>>

ProgramsOf(t) ==
  IF t[1] = "worker" THEN {"worker_ok", "worker_err"}
  ELSE {"update_model", "run_pipeline_node", "test_schema"}

\* ------------------------------------------------------------------ state
VARIABLES
  graph,      \* Graph.nodes: name -> Node
  adapters,   \* Config.adapters: the adapter names
  models,     \* Config.models: the model names
  queries,    \* Config.queries: name -> request body kept
  dashboards, \* Config.dashboards: name -> request body kept
  connections,\* Config.project.connections: name -> ConnectionConfig
  disk,       \* the project directory: adapters/, models/, queries/,
              \* dashboards/ and the connections of project.yml
  pipeline,   \* the Pipeline of the run
  run_file,   \* the content of the run's file under .data/pipelines, if written
  mutex,      \* per Mutex (Config, Graph, Pipeline): the task holding it
  at,         \* per task that takes locks: its position in its code
  pc,         \* per worker: position in Worker::run
  cur,        \* per worker: the task name pop_task returned
  todo,       \* per worker: the rest of fail_task's downstream list
  now,        \* the clock (Utc::now())
  popped,     \* per name: times pop_task returned it
  invoked,    \* per name: the results of the executor.run calls made with it
  inval,      \* per name: times update_node has reset the node
  built,      \* per name: the value of inval the materialized table was built at
  api_calls,  \* API requests served so far
  response,   \* HTTP status of the last API request
  last        \* the last direct call on the Graph: its name, argument, graph before

vars == <<graph, adapters, models, queries, dashboards, connections, disk,
          pipeline, run_file, mutex, at, pc, cur, todo, now,
          popped, invoked, inval, built, api_calls, response, last>>

\* The state of the lock-level view of the tasks.
lockVars == <<mutex, at>>


\* HashMap<String, T>
EmptyMap == [n \in {} |-> 0]
Insert(m, k, v) == [n \in DOMAIN m \cup {k} |-> IF n = k THEN v ELSE m[n]]
Remove(m, k) == [n \in DOMAIN m \ {k} |-> m[n]]

\* Config::load of a project directory d: each map is read from its directory
\* and load_secrets decrypts the credentials of project.yml in memory.
Loaded(d) ==
  /\ disk = d
  /\ adapters = d.adapters
  /\ models = d.models
  /\ queries = d.queries
  /\ dashboards = d.dashboards
  /\ connections = [n \in DOMAIN d.project |-> Decrypt_connection_secrets(d.project[n])]

\* The project as loaded: the graph and which names are adapters; no
\* queries, dashboards or connections.
Project(g, A) ==
  /\ graph = g
  /\ Loaded([adapters |-> A, models |-> DOMAIN g \ A, queries |-> EmptyMap,
             dashboards |-> EmptyMap, project |-> EmptyMap])

NoCall == [op |-> "none"]

\* Before run_pipeline: Pipeline::new, no worker spawned, nothing recorded.
NoRunYet ==
  /\ pipeline = Pipeline_new
  /\ run_file = None
  /\ mutex = [m \in Mutexes |-> None]
  /\ at = [t \in LockTasks |-> <<"idle", 1>>]
  /\ pc = [w \in Workers |-> "unspawned"]
  /\ cur = [w \in Workers |-> None]
  /\ todo = [w \in Workers |-> <<>>]
  /\ popped = [n \in Names |-> 0]
  /\ invoked = [n \in Names |-> <<>>]
  /\ now = 0
  /\ inval = [n \in Names |-> 0]
  /\ built = [n \in Names |-> 0]
  /\ api_calls = 0
  /\ response = 0
  /\ last = NoCall

Acyclic(g) == \A n \in DOMAIN g : n \notin Range(Upstream(g, n))

\* No node depends on a name that has no node.
NoDangling(g) == \A n \in DOMAIN g : Range(g[n].dependencies) \subseteq DOMAIN g

\* A project of models over any graph (cycles and dangling dependencies
\* included), every node stale, and the run not yet started.
Init ==
  /\ \E deps \in [Names -> CanonDepLists], S \in SUBSET Names :
        Project([n \in S |-> Node(n, None, deps[n])], {})
  /\ NoRunYet

\* ------------------------------------------------------------ run_pipeline
\* pipeline.start(tasks) and the spawn of the workers.
Run_pipeline(tasks) ==
  /\ pipeline.phase = Waiting
  /\ pipeline' = Pipeline_start(pipeline, tasks)
  /\ run_file' = Pipeline_save(pipeline')
  /\ pc' = [w \in Workers |-> "pop"]
  /\ UNCHANGED lockVars
  /\ UNCHANGED <<graph, adapters, models, queries, dashboards,
                 connections, disk, cur, todo, now, popped, invoked,
                 inval, built, api_calls, response, last>>

Run_pipeline_all == Run_pipeline(adapters \cup models)

Run_pipeline_node(node_name) ==
  Run_pipeline(Range(All_upstream(graph, node_name, {node_name}).out) \cup {node_name})

\* pop_task, under the pipeline and graph locks.
PopTask(w) ==
  /\ pc[w] = "pop"
  /\ IF Ready(graph, pipeline) # {}
       THEN \E task_name \in Ready(graph, pipeline) :
              /\ pipeline' = Start_task(pipeline, task_name)
              /\ run_file' = Pipeline_save(pipeline')
              /\ pc' = [pc EXCEPT ![w] = "exec"]
              /\ cur' = [cur EXCEPT ![w] = Some(task_name)]
              /\ popped' = [popped EXCEPT ![task_name] = @ + 1]
       ELSE /\ pc' = [pc EXCEPT ![w] = "exit"]
            /\ UNCHANGED <<pipeline, run_file, cur, popped>>
  /\ UNCHANGED lockVars
  /\ UNCHANGED <<graph, adapters, models, queries, dashboards,
                 connections, disk, todo, now, invoked, inval, built,
                 api_calls, response, last>>

\* Executor::run(name): the results it can return for a name.
Executor_run(name) ==
  IF name \in adapters \cup models THEN {"ok", "err"} ELSE {"err"}

\* self.executor.run(&name) in Worker::run: under the config lock it reads the
\* task's configuration and materializes the table.
ExecutorRun(w) ==
  /\ pc[w] = "exec"
  /\ LET name == cur[w][1] IN
     \E r \in Executor_run(name) :
       /\ pc' = [pc EXCEPT ![w] = IF r = "ok" THEN "complete" ELSE "fail"]
       /\ invoked' = [invoked EXCEPT ![name] = Append(@, r)]
       /\ built' = IF r = "ok" THEN [built EXCEPT ![name] = inval[name]] ELSE built
  /\ UNCHANGED <<run_file, mutex, at>>
  /\ UNCHANGED <<graph, adapters, models, queries, dashboards,
                 connections, disk, pipeline, cur, todo, now, popped,
                 inval, api_calls, response, last>>

\* Worker::complete_task: the pipeline lock is held across both writes.
CompleteTask(w) ==
  /\ pc[w] = "complete"
  /\ LET name == cur[w][1] IN
       /\ pipeline' = Complete_task(pipeline, name)
       /\ run_file' = Pipeline_save(pipeline')
       /\ UNCHANGED lockVars
       /\ graph' = Update(graph, name, now + 1)
  /\ now' = now + 1
  /\ pc' = [pc EXCEPT ![w] = "pop"]
  /\ cur' = [cur EXCEPT ![w] = None]
  /\ UNCHANGED <<adapters, models, queries, dashboards,
                 connections, disk, todo, popped, invoked, inval, built,
                 api_calls, response, last>>

\* Worker::fail_task, first block: the task itself.
FailTask(w) ==
  /\ pc[w] = "fail"
  /\ pipeline' = Fail_task(pipeline, cur[w][1], ExecutorError)
  /\ run_file' = Pipeline_save(pipeline')
  /\ UNCHANGED lockVars
  /\ pc' = [pc EXCEPT ![w] = "downstream"]
  /\ UNCHANGED <<graph, adapters, models, queries, dashboards,
                 connections, disk, cur, todo, now, popped, invoked,
                 inval, built, api_calls, response, last>>

\* Worker::fail_task: self.graph.lock().await.downstream(name).
FailDownstream(w) ==
  /\ pc[w] = "downstream"
  /\ LET downstream == Downstream(graph, cur[w][1]) IN
       /\ todo' = [todo EXCEPT ![w] = downstream]
       /\ pc' = [pc EXCEPT ![w] = IF downstream = <<>> THEN "pop" ELSE "cascade"]
       /\ cur' = [cur EXCEPT ![w] = IF downstream = <<>> THEN None ELSE @]
  /\ UNCHANGED <<run_file, mutex, at>>
  /\ UNCHANGED <<graph, adapters, models, queries, dashboards,
                 connections, disk, pipeline, now, popped, invoked,
                 inval, built, api_calls, response, last>>

\* Variant: the cascade marks the task in memory and does not write the file.
FailCascade_unsaved(w) ==
  /\ pc[w] = "cascade"
  /\ pipeline' = Fail_task(pipeline, Head(todo[w]), UpstreamFailed)
  /\ UNCHANGED run_file
  /\ UNCHANGED lockVars
  /\ todo' = [todo EXCEPT ![w] = Tail(@)]
  /\ pc' = [pc EXCEPT ![w] = IF Tail(todo[w]) = <<>> THEN "pop" ELSE "cascade"]
  /\ cur' = [cur EXCEPT ![w] = IF Tail(todo[w]) = <<>> THEN None ELSE @]
  /\ UNCHANGED <<graph, adapters, models, queries, dashboards,
                 connections, disk, now, popped, invoked, inval, built,
                 api_calls, response, last>>

\* Worker::fail_task: one turn of the loop over the downstream list.
FailCascade(w) ==
  /\ pc[w] = "cascade"
  /\ pipeline' = Fail_task(pipeline, Head(todo[w]), UpstreamFailed)
  /\ run_file' = Pipeline_save(pipeline')
  /\ UNCHANGED lockVars
  /\ todo' = [todo EXCEPT ![w] = Tail(@)]
  /\ pc' = [pc EXCEPT ![w] = IF Tail(todo[w]) = <<>> THEN "pop" ELSE "cascade"]
  /\ cur' = [cur EXCEPT ![w] = IF Tail(todo[w]) = <<>> THEN None ELSE @]
  /\ UNCHANGED <<graph, adapters, models, queries, dashboards,
                 connections, disk, now, popped, invoked, inval, built,
                 api_calls, response, last>>

\* run_pipeline after try_join_all: pipeline.complete().
PipelineComplete ==
  /\ pipeline.phase = Running
  /\ \A w \in Workers : pc[w] = "exit"
  /\ pipeline' = Pipeline_complete(pipeline)
  /\ run_file' = Pipeline_save(pipeline')
  /\ UNCHANGED lockVars
  /\ UNCHANGED <<graph, adapters, models, queries, dashboards,
                 connections, disk, pc, cur, todo, now, popped, invoked,
                 inval, built, api_calls, response, last>>

WorkerStep(w) ==
  \/ PopTask(w)
  \/ ExecutorRun(w)
  \/ CompleteTask(w)
  \/ FailTask(w)
  \/ FailDownstream(w)
  \/ FailCascade(w)

Next ==
  \/ Run_pipeline_all
  \/ \E node_name \in Names : Run_pipeline_node(node_name)
  \/ \E w \in Workers : PopTask(w)
  \/ \E w \in Workers : ExecutorRun(w)
  \/ \E w \in Workers : CompleteTask(w)
  \/ \E w \in Workers : FailTask(w)
  \/ \E w \in Workers : FailDownstream(w)
  \/ \E w \in Workers : FailCascade(w)
  \/ PipelineComplete

Spec == Init /\ [][Next]_vars

\* The runtime schedules every spawned worker and the joining task.
FairSpec ==
  /\ Spec
  /\ \A w \in Workers : WF_vars(WorkerStep(w))
  /\ WF_vars(PipelineComplete)

\* ------------------------------------------- api/adapter.rs, api/model.rs
\* The SQL of a model request: unparseable, or a query over a table list.
SqlInputs ==
  {[valid |-> FALSE, from |-> <<>>]} \cup
  {[valid |-> TRUE, from |-> d] : d \in {l \in CanonDepLists : Len(l) <= 1}}

\* The nodes whose updated_at a call of update_node(name) on g resets.
Invalidated(g, name) == ({name} \cup Range(Downstream(g, name))) \cap DOMAIN g

Bump(f, S) == [n \in DOMAIN f |-> IF n \in S THEN f[n] + 1 ELSE f[n]]

\* The reply of a handler, counted.
Reply(status) ==
  /\ api_calls' = api_calls + 1
  /\ response' = status
  /\ UNCHANGED <<pipeline, run_file, mutex, at, pc, cur, todo, now, popped,
                 invoked, built, last>>

\* An early return: nothing of the project is written.
Untouched ==
  UNCHANGED <<graph, adapters, models, queries, dashboards, connections, disk,
              inval>>

create_adapter(name) ==
  IF name \in adapters
    THEN Reply(409) /\ Untouched
    ELSE /\ Reply(200)
         /\ graph' = Create_node(graph, name, <<>>)
         /\ adapters' = adapters \cup {name}
         /\ disk' = [disk EXCEPT !.adapters = @ \cup {name}]
         /\ UNCHANGED <<models, queries, dashboards, connections, inval>>

update_adapter(name) ==
  IF name \notin adapters
    THEN Reply(404) /\ Untouched
    ELSE /\ Reply(200)
         /\ graph' = Update_node(graph, name)
         /\ inval' = Bump(inval, Invalidated(graph, name))
         /\ adapters' = adapters \cup {name}
         /\ disk' = [disk EXCEPT !.adapters = @ \cup {name}]
         /\ UNCHANGED <<models, queries, dashboards, connections>>

delete_adapter(name) ==
  IF name \notin adapters
    THEN Reply(404) /\ Untouched
    ELSE /\ Reply(204)
         /\ graph' = Delete_node(graph, name)
         /\ adapters' = adapters \ {name}
         /\ disk' = [disk EXCEPT !.adapters = @ \ {name}]
         /\ UNCHANGED <<models, queries, dashboards, connections, inval>>

create_model(name, sql) ==
  IF name \in models
    THEN Reply(409) /\ Untouched
  ELSE IF ~Dependent_tables(sql).ok
    THEN Reply(400) /\ Untouched
    ELSE /\ Reply(200)
         /\ graph' = Create_node(graph, name, Dependent_tables(sql).tables)
         /\ models' = models \cup {name}
         /\ disk' = [disk EXCEPT !.models = @ \cup {name}]
         /\ UNCHANGED <<adapters, queries, dashboards, connections, inval>>

\* Variant: update_model replaces the dependencies and leaves the stamps.
update_model_no_reset(name, sql) ==
  IF name \notin models
    THEN Reply(404) /\ Untouched
  ELSE IF ~Dependent_tables(sql).ok
    THEN Reply(400) /\ Untouched
    ELSE /\ Reply(200)
         /\ graph' = Update_dependencies(graph, name, Dependent_tables(sql).tables)
         /\ models' = models \cup {name}
         /\ disk' = [disk EXCEPT !.models = @ \cup {name}]
         /\ UNCHANGED <<adapters, queries, dashboards, connections, inval>>

update_model(name, sql) ==
  IF name \notin models
    THEN Reply(404) /\ Untouched
  ELSE IF ~Dependent_tables(sql).ok
    THEN Reply(400) /\ Untouched
    ELSE LET g1 == Update_dependencies(graph, name, Dependent_tables(sql).tables) IN
         /\ Reply(200)
         /\ graph' = Update_node(g1, name)
         /\ inval' = Bump(inval, Invalidated(g1, name))
         /\ models' = models \cup {name}
         /\ disk' = [disk EXCEPT !.models = @ \cup {name}]
         /\ UNCHANGED <<adapters, queries, dashboards, connections>>

\* Variant: delete_model removes the graph node before it looks the model up.
delete_model_node_first(name) ==
  IF name \notin models
    THEN /\ Reply(404)
         /\ graph' = Delete_node(graph, name)
         /\ UNCHANGED <<adapters, models, queries, dashboards, connections, disk, inval>>
    ELSE /\ Reply(204)
         /\ graph' = Delete_node(graph, name)
         /\ models' = models \ {name}
         /\ disk' = [disk EXCEPT !.models = @ \ {name}]
         /\ UNCHANGED <<adapters, queries, dashboards, connections, inval>>

delete_model(name) ==
  IF name \notin models
    THEN Reply(404) /\ Untouched
    ELSE /\ Reply(204)
         /\ graph' = Delete_node(graph, name)
         /\ models' = models \ {name}
         /\ disk' = [disk EXCEPT !.models = @ \ {name}]
         /\ UNCHANGED <<adapters, queries, dashboards, connections, inval>>

\* The steps of the run, interleaved with API requests.
NextApi ==
  \/ Run_pipeline_all
  \/ \E node_name \in Names : Run_pipeline_node(node_name)
  \/ \E w \in Workers : PopTask(w)
  \/ \E w \in Workers : ExecutorRun(w)
  \/ \E w \in Workers : CompleteTask(w)
  \/ \E w \in Workers : FailTask(w)
  \/ \E w \in Workers : FailDownstream(w)
  \/ \E w \in Workers : FailCascade(w)
  \/ PipelineComplete
  \/ api_calls < MaxApiCalls /\ \E name \in Names : create_adapter(name)
  \/ api_calls < MaxApiCalls /\ \E name \in Names : update_adapter(name)
  \/ api_calls < MaxApiCalls /\ \E name \in Names : delete_adapter(name)
  \/ api_calls < MaxApiCalls /\ \E name \in Names, sql \in SqlInputs : create_model(name, sql)
  \/ api_calls < MaxApiCalls /\ \E name \in Names, sql \in SqlInputs : update_model(name, sql)
  \/ api_calls < MaxApiCalls /\ \E name \in Names : delete_model(name)

\* A project kept the intended way (no cycle, nothing dangling) in which the
\* last name is still free for a create request; every node either stale or
\* stamped by an earlier run; nodes without dependencies adapters or models ...
InitApi ==
  /\ \E deps \in [Names -> CanonDepLists], u \in {None, Some(0)} :
       LET g == [n \in Names \ {NameSeq[Len(NameSeq)]} |-> Node(n, u, deps[n])] IN
         /\ Acyclic(g)
         /\ NoDangling(g)
         /\ \E A \in SUBSET {n \in DOMAIN g : g[n].dependencies = <<>>} : Project(g, A)
  /\ NoRunYet

\* ... and a run with API requests served while it is in flight.
SpecApi == InitApi /\ [][NextApi]_vars

\* ------------------------------------------------ the Graph on its own
\* Every graph over the names with duplicate-free dependency lists in any
\* order, each node stale or stamped.
InitGraph ==
  /\ \E deps \in [Names -> DepLists], stamp \in [Names -> {None, Some(0)}],
        S \in SUBSET Names :
        Project([n \in S |-> Node(n, stamp[n], deps[n])], {})
  /\ NoRunYet

GraphCall(op, name) == [op |-> op, name |-> name, before |-> graph]

NoRunStep ==
  UNCHANGED <<adapters, models, queries, dashboards, connections, disk, pipeline,
              run_file, mutex, at, pc, cur, todo, popped, invoked,
              inval, built, api_calls, response>>

update_node(name) ==
  /\ graph' = Update_node(graph, name)
  /\ last' = GraphCall("update_node", name)
  /\ UNCHANGED now
  /\ NoRunStep

set_current_time(name) ==
  /\ now < MaxTime
  /\ graph' = Set_current_time(graph, name, now + 1)
  /\ now' = now + 1
  /\ last' = GraphCall("set_current_time", name)
  /\ NoRunStep

NextGraph ==
  \/ \E name \in Names : update_node(name)
  \/ \E name \in Names : set_current_time(name)

SpecGraph == InitGraph /\ [][NextGraph]_vars

\* The two traversals called on a graph, which they leave as it is.
GraphQuery(op, name, result) ==
  [op |-> op, name |-> name, before |-> graph, result |-> result]

upstream(name) ==
  /\ last' = GraphQuery("upstream", name, Upstream(graph, name))
  /\ UNCHANGED <<graph, now>>
  /\ NoRunStep

downstream(name) ==
  /\ last' = GraphQuery("downstream", name, Downstream(graph, name))
  /\ UNCHANGED <<graph, now>>
  /\ NoRunStep

NextTraverse ==
  \/ \E name \in Names : upstream(name)
  \/ \E name \in Names : downstream(name)

SpecTraverse == InitGraph /\ [][NextTraverse]_vars

\* ------------------------------------- core/config/secret.rs on its own
\* Strings given to decrypt_string that no encrypt_string produced: not
\* base64, the empty string, and base64 of bytes that are no sealed message.
ForeignStrings ==
  {[valid |-> FALSE, bytes |-> <<>>],
   BASE64_encode(<<>>),
   BASE64_encode([i \in 1..(NONCE_LEN + TAG_LEN) |-> Byte(0)])}

SecretCall(op, input, key_file, result) ==
  [op |-> op, input |-> input, key_file |-> key_file, result |-> result]

encrypt_string(plaintext, key_file) ==
  /\ \E nonce_bytes \in Nonces :
        last' = SecretCall("encrypt", plaintext, key_file,
                           Encrypt_string(plaintext, key_file, nonce_bytes))
  /\ UNCHANGED <<graph, now>>
  /\ NoRunStep

decrypt_string(encrypted, key_file) ==
  /\ last' = SecretCall("decrypt", encrypted, key_file,
                        Decrypt_string(encrypted, key_file))
  /\ UNCHANGED <<graph, now>>
  /\ NoRunStep

\* The strings decrypt_string is given: what the last encrypt_string
\* returned, or a foreign one.
Encrypted_inputs ==
  ForeignStrings \cup
  (IF last.op = "encrypt" /\ last.result.ok THEN {last.result.value} ELSE {})

InitSecret ==
  /\ Project(EmptyMap, {})
  /\ NoRunYet

NextSecret ==
  \/ \E plaintext \in Plaintexts, key_file \in KeyFiles :
        encrypt_string(plaintext, key_file)
  \/ \E encrypted \in Encrypted_inputs, key_file \in KeyFiles :
        decrypt_string(encrypted, key_file)

SpecSecret == InitSecret /\ [][NextSecret]_vars

\* ------------------------------------------ the adapters' imports alone
\* The lake the next import finds: as the last one left it.
LakeNow == IF last.op \in {"file_import", "database_import"} THEN last.after ELSE Lake_new

LakeCall(op, kind, table_name, files, r) ==
  [op |-> op, kind |-> kind, table_name |-> table_name, files |-> files,
   before |-> LakeNow, after |-> r.lake, result |-> r.result, calls |-> r.calls]

\* Adapter::import of a file adapter: list_files fails or returns the
\* files the pattern matches, then import_files.
file_import(kind, table_name, listing, o) ==
  /\ last' = LakeCall("file_import", kind, table_name, listing,
                      File_import(LakeNow, kind, "file", table_name, listing, o))
  /\ UNCHANGED <<graph, now>>
  /\ NoRunStep

\* Adapter::import of a database adapter.
database_import(kind, table_name, o) ==
  /\ last' = LakeCall("database_import", kind, table_name, Err("no files"),
                      Database_import(LakeNow, kind, "database", table_name, o))
  /\ UNCHANGED <<graph, now>>
  /\ NoRunStep

NextLake ==
  \/ \E kind \in {"local", "s3"}, table_name \in Names,
        listing \in {Err("Failed to list files")} \cup
                    {Ok(files) : files \in UNION {[1..k -> {"f1", "f2"}] : k \in 0..MaxFiles}},
        o \in [configure : Outcome, format : Outcome, create : Outcome] :
        file_import(kind, table_name, listing, o)
  \/ \E kind \in {"sqlite", "mysql", "postgresql"}, table_name \in Names,
        o \in [attach : Outcome, exists : {"yes", "no", "err"},
               create : Outcome, detach : Outcome] :
        database_import(kind, table_name, o)

SpecLake == InitSecret /\ [][NextLake]_vars

\* --------------------------------------- the tasks and the three mutexes
\* The instruction a task is at; none when its code has ended.
Ins(t) ==
  IF at[t][2] <= Len(Program(at[t][1])) THEN Program(at[t][1])[at[t][2]]
  ELSE <<"end", "end">>

NoDataStep ==
  UNCHANGED <<graph, adapters, models, queries, dashboards, connections, disk,
              pipeline, run_file, pc, cur, todo, now, popped, invoked, inval,
              built, api_calls, response, last>>

\* A worker begins a turn of its loop, a request begins.
Begin(t, prog) ==
  /\ Ins(t)[1] = "end"
  /\ at' = [at EXCEPT ![t] = <<prog, 1>>]
  /\ UNCHANGED mutex
  /\ NoDataStep

\* mutex.lock().await returns when the mutex is free.
Acquire(t) ==
  /\ Ins(t)[1] = "lock"
  /\ mutex[Ins(t)[2]] = None
  /\ mutex' = [mutex EXCEPT ![Ins(t)[2]] = Some(t)]
  /\ at' = [at EXCEPT ![t] = <<@[1], @[2] + 1>>]
  /\ NoDataStep

\* The guard is dropped.
Release(t) ==
  /\ Ins(t)[1] = "unlock"
  /\ mutex' = [mutex EXCEPT ![Ins(t)[2]] = None]
  /\ at' = [at EXCEPT ![t] = <<@[1], @[2] + 1>>]
  /\ NoDataStep

\* The long operation the task is in returns.
LongOperation(t) ==
  /\ Ins(t)[1] = "long"
  /\ at' = [at EXCEPT ![t] = <<@[1], @[2] + 1>>]
  /\ UNCHANGED mutex
  /\ NoDataStep

NextLocks ==
  \/ \E t \in LockTasks : \E prog \in ProgramsOf(t) : Begin(t, prog)
  \/ \E t \in LockTasks : Acquire(t)
  \/ \E t \in LockTasks : Release(t)
  \/ \E t \in LockTasks : LongOperation(t)

SpecLocks == InitSecret /\ [][NextLocks]_vars

\* ------------------------- api/query.rs, api/dashboard.rs, api/connection.rs
\* The bodies of query and dashboard requests.
Bodies == {"v1", "v2"}

\* The connections of requests: without a credential (sqlite, localfile), or
\* with one sent plain or already encrypted.
ConnInputs ==
  {ConnectionConfig(None),
   ConnectionConfig(Some(PlainText("p"))),
   ConnectionConfig(Some(SecretField_encrypt("p")))}

\* Variant: create_query without the conflict check.
create_query_upsert(name, config) ==
  /\ Reply(200)
  /\ queries' = Insert(queries, name, config)
  /\ disk' = [disk EXCEPT !.queries = Insert(@, name, config)]
  /\ UNCHANGED <<graph, adapters, models, dashboards, connections, inval>>

create_query(name, config) ==
  IF name \in DOMAIN queries
    THEN Reply(409) /\ Untouched
    ELSE /\ Reply(200)
         /\ queries' = Insert(queries, name, config)
         /\ disk' = [disk EXCEPT !.queries = Insert(@, name, config)]
         /\ UNCHANGED <<graph, adapters, models, dashboards, connections, inval>>

update_query(name, config) ==
  IF name \notin DOMAIN queries
    THEN Reply(404) /\ Untouched
    ELSE /\ Reply(200)
         /\ queries' = Insert(queries, name, config)
         /\ disk' = [disk EXCEPT !.queries = Insert(@, name, config)]
         /\ UNCHANGED <<graph, adapters, models, dashboards, connections, inval>>

delete_query(name) ==
  IF name \notin DOMAIN queries
    THEN Reply(404) /\ Untouched
    ELSE /\ Reply(200)
         /\ queries' = Remove(queries, name)
         /\ disk' = [disk EXCEPT !.queries = Remove(@, name)]
         /\ UNCHANGED <<graph, adapters, models, dashboards, connections, inval>>

create_dashboard(name, config) ==
  IF name \in DOMAIN dashboards
    THEN Reply(409) /\ Untouched
    ELSE /\ Reply(200)
         /\ dashboards' = Insert(dashboards, name, config)
         /\ disk' = [disk EXCEPT !.dashboards = Insert(@, name, config)]
         /\ UNCHANGED <<graph, adapters, models, queries, connections, inval>>

update_dashboard(name, config) ==
  IF name \notin DOMAIN dashboards
    THEN Reply(404) /\ Untouched
    ELSE /\ Reply(200)
         /\ dashboards' = Insert(dashboards, name, config)
         /\ disk' = [disk EXCEPT !.dashboards = Insert(@, name, config)]
         /\ UNCHANGED <<graph, adapters, models, queries, connections, inval>>

delete_dashboard(name) ==
  IF name \notin DOMAIN dashboards
    THEN Reply(404) /\ Untouched
    ELSE /\ Reply(200)
         /\ dashboards' = Remove(dashboards, name)
         /\ disk' = [disk EXCEPT !.dashboards = Remove(@, name)]
         /\ UNCHANGED <<graph, adapters, models, queries, connections, inval>>

\* project_config is a clone of the in-memory ProjectConfig; it is saved with
\* the request's connection encrypted and kept with it decrypted.
create_connection(name, config) ==
  IF name \in DOMAIN connections
    THEN Reply(409) /\ Untouched
    ELSE LET project_config == Insert(connections, name, Encrypt_connection_secrets(config)) IN
         /\ Reply(200)
         /\ disk' = [disk EXCEPT !.project = project_config]
         /\ connections' = Insert(project_config, name, Decrypt_connection_secrets(config))
         /\ UNCHANGED <<graph, adapters, models, queries, dashboards, inval>>

update_connection(name, connection) ==
  IF name \notin DOMAIN connections
    THEN Reply(404) /\ Untouched
    ELSE LET project_config == Insert(connections, name, Encrypt_connection_secrets(connection)) IN
         /\ Reply(200)
         /\ disk' = [disk EXCEPT !.project = project_config]
         /\ connections' = Insert(project_config, name, Decrypt_connection_secrets(connection))
         /\ UNCHANGED <<graph, adapters, models, queries, dashboards, inval>>

delete_connection(name) ==
  IF name \notin DOMAIN connections
    THEN Reply(404) /\ Untouched
    ELSE LET project_config == Remove(connections, name) IN
         /\ Reply(200)
         /\ disk' = [disk EXCEPT !.project = project_config]
         /\ connections' = project_config
         /\ UNCHANGED <<graph, adapters, models, queries, dashboards, inval>>

\* ------------------------------------------- requests on an empty project
\* `duckhub new`: no entity, no connection, an empty graph.
InitCrud ==
  /\ Project([n \in {} |-> Node(n, None, <<>>)], {})
  /\ NoRunYet

NextCrud ==
  \/ api_calls < MaxCrudCalls /\ \E name \in Names : create_adapter(name)
  \/ api_calls < MaxCrudCalls /\ \E name \in Names : update_adapter(name)
  \/ api_calls < MaxCrudCalls /\ \E name \in Names : delete_adapter(name)
  \/ api_calls < MaxCrudCalls /\ \E name \in Names, sql \in SqlInputs : create_model(name, sql)
  \/ api_calls < MaxCrudCalls /\ \E name \in Names, sql \in SqlInputs : update_model(name, sql)
  \/ api_calls < MaxCrudCalls /\ \E name \in Names : delete_model(name)
  \/ api_calls < MaxCrudCalls /\ \E name \in Names, config \in Bodies : create_query(name, config)
  \/ api_calls < MaxCrudCalls /\ \E name \in Names, config \in Bodies : update_query(name, config)
  \/ api_calls < MaxCrudCalls /\ \E name \in Names : delete_query(name)
  \/ api_calls < MaxCrudCalls /\ \E name \in Names, config \in Bodies : create_dashboard(name, config)
  \/ api_calls < MaxCrudCalls /\ \E name \in Names, config \in Bodies : update_dashboard(name, config)
  \/ api_calls < MaxCrudCalls /\ \E name \in Names : delete_dashboard(name)
  \/ api_calls < MaxCrudCalls /\ \E name \in Names, config \in ConnInputs : create_connection(name, config)
  \/ api_calls < MaxCrudCalls /\ \E name \in Names, config \in ConnInputs : update_connection(name, config)
  \/ api_calls < MaxCrudCalls /\ \E name \in Names : delete_connection(name)

SpecCrud == InitCrud /\ [][NextCrud]_vars

\* --------------------------------------- one request on a loaded project
\* Any graph (cycles and dangling dependencies included), each node stale or
\* stamped by an earlier run, nodes without dependencies adapters or models,
\* and one query, one dashboard and one connection under the first name, its
\* credential encrypted in project.yml.
InitProject ==
  /\ \E deps \in [Names -> CanonDepLists], stamp \in [Names -> {None, Some(0)}],
        S \in SUBSET Names :
       LET g == [n \in S |-> Node(n, stamp[n], deps[n])] IN
       \E A \in SUBSET {n \in S : deps[n] = <<>>} :
         /\ graph = g
         /\ Loaded([adapters |-> A, models |-> S \ A,
                    queries |-> Insert(EmptyMap, NameSeq[1], "v1"),
                    dashboards |-> Insert(EmptyMap, NameSeq[1], "v1"),
                    project |-> Insert(EmptyMap, NameSeq[1],
                                       ConnectionConfig(Some(SecretField_encrypt("p"))))])
  /\ NoRunYet

NextRequest ==
  \/ api_calls = 0 /\ \E name \in Names : create_adapter(name)
  \/ api_calls = 0 /\ \E name \in Names : update_adapter(name)
  \/ api_calls = 0 /\ \E name \in Names : delete_adapter(name)
  \/ api_calls = 0 /\ \E name \in Names, sql \in SqlInputs : create_model(name, sql)
  \/ api_calls = 0 /\ \E name \in Names, sql \in SqlInputs : update_model(name, sql)
  \/ api_calls = 0 /\ \E name \in Names : delete_model(name)
  \/ api_calls = 0 /\ \E name \in Names, config \in Bodies : create_query(name, config)
  \/ api_calls = 0 /\ \E name \in Names, config \in Bodies : update_query(name, config)
  \/ api_calls = 0 /\ \E name \in Names : delete_query(name)
  \/ api_calls = 0 /\ \E name \in Names, config \in Bodies : create_dashboard(name, config)
  \/ api_calls = 0 /\ \E name \in Names, config \in Bodies : update_dashboard(name, config)
  \/ api_calls = 0 /\ \E name \in Names : delete_dashboard(name)
  \/ api_calls = 0 /\ \E name \in Names, config \in ConnInputs : create_connection(name, config)
  \/ api_calls = 0 /\ \E name \in Names, config \in ConnInputs : update_connection(name, config)
  \/ api_calls = 0 /\ \E name \in Names : delete_connection(name)

SpecProject == InitProject /\ [][NextRequest]_vars

\* ================================================================ claims
Phase(t) == pipeline.tasks[t].phase
Tasks == DOMAIN pipeline.tasks
DepsOf(t) == Range(Task_dependencies(graph, t))

\* C1: a task that pop_task has started (so every task that is running or
\* completed) has each of its node's dependencies among the tasks of the run
\* and in phase completed; a task with a dependency outside the task-set is
\* never started.
C1_DepsCompletedBeforeStart ==
  \A t \in Tasks :
     (popped[t] > 0 \/ Phase(t) \in {Running, Completed}) =>
        \A d \in DepsOf(t) : d \in Tasks /\ Phase(d) = Completed

\* A task with two dependencies has completed.
C1_Witness ==
  \E t \in Tasks : Phase(t) = Completed /\ Cardinality(DepsOf(t)) = 2

\* C2: pop_task returns each task name at most once, the executor is called
\* at most once per name, and two workers never hold the same name.
C2_StartedAtMostOnce ==
  /\ \A n \in Names : popped[n] <= 1 /\ Len(invoked[n]) <= 1
  /\ \A w1, w2 \in Workers :
        (w1 # w2 /\ cur[w1] # None) => cur[w1] # cur[w2]

\* Two workers are between pop_task and the executor at the same time.
C2_Witness ==
  \E w1, w2 \in Workers : w1 # w2 /\ pc[w1] = "exec" /\ pc[w2] = "exec"

\* C3: when the run has finished, every task of the run downstream of a
\* failed task is failed with "Upstream task failed" and the executor was
\* never called with it.
C3_CascadeReachesDownstream ==
  pipeline.phase = Completed =>
    \A u \in Tasks :
       Phase(u) = Failed =>
         \A d \in Range(Downstream(graph, u)) \cap Tasks :
            /\ Phase(d) = Failed
            /\ pipeline.tasks[d].error = Some(UpstreamFailed)
            /\ invoked[d] = <<>>

\* A finished run in which the executor failed on u and a task that is
\* downstream of u only through another task is failed.
C3_Witness ==
  /\ pipeline.phase = Completed
  /\ \E u, e \in Tasks :
        /\ pipeline.tasks[u].error = Some(ExecutorError)
        /\ e \in Range(Downstream(graph, u))
        /\ u \notin DepsOf(e)
        /\ Phase(e) = Failed

C4_Closure(t) == {t} \cup Range(Upstream(graph, t))

\* The graph is acyclic, t is a task and so are its transitive dependencies.
C4_Eligible(t) ==
  /\ Acyclic(graph)
  /\ t \in Tasks
  /\ C4_Closure(t) \subseteq Tasks

\* t is completed, or the executor failed on t or on a transitive dependency.
C4_Settled(t) ==
  \/ Phase(t) = Completed
  \/ \E x \in C4_Closure(t) : "err" \in Range(invoked[x])

\* C4: in a run over an acyclic graph, every task whose transitive
\* dependencies are all tasks of the run reaches completed unless the
\* executor fails on it or on one of its transitive dependencies, whatever
\* else fails and whichever workers have left their loop.
C4_SucceedingTasksComplete ==
  (pipeline.phase = Running) ~>
     (\A t \in Names : C4_Eligible(t) => C4_Settled(t))

\* A task with a dependency has completed in a finished run in which the
\* executor failed on another task.
C4_Witness ==
  /\ pipeline.phase = Completed
  /\ \E t, u \in Tasks :
        /\ Phase(t) = Completed
        /\ DepsOf(t) # {}
        /\ pipeline.tasks[u].error = Some(ExecutorError)

\* C5: every started run ends with all workers out of their loop and the
\* pipeline completed; the pipeline phase only moves waiting -> running ->
\* completed and is never failed.
C5_RunTerminates ==
  /\ (pipeline.phase = Running) ~>
        (pipeline.phase = Completed /\ \A w \in Workers : pc[w] = "exit")
  /\ [](pipeline.phase # Failed)
  /\ [][pipeline.phase' # pipeline.phase =>
          <<pipeline.phase, pipeline.phase'>> \in
             {<<Waiting, Running>>, <<Running, Completed>>}]_vars

\* A run over a cyclic graph has finished.
C5_Witness ==
  /\ pipeline.phase = Completed
  /\ ~Acyclic(graph)
  /\ Tasks # {}
  /\ \A w \in Workers : pc[w] = "exit"

\* C6: once a task is completed or failed its phase never changes, also
\* while API handlers change the graph during the run.
C6_TerminalPhases ==
  [][\A t \in Tasks :
        Phase(t) \in {Completed, Failed} => pipeline'.tasks[t].phase = Phase(t)]_vars

\* C7: when the pipeline phase is completed no task is waiting or running.
C7_NoTaskLeftBehind ==
  pipeline.phase = Completed =>
    \A t \in Tasks : Phase(t) \notin {Waiting, Running}

\* C8: a node with updated_at = Some(t) has a table that was built after the
\* node's latest invalidation (no update_node has reset the node since the
\* executor read its configuration).
C8_FreshMeansBuiltAfterInvalidation ==
  \A n \in DOMAIN graph :
     graph[n].updated_at # None => built[n] = inval[n]

\* C9: a step of the run changes the graph only by stamping the node of the
\* task that becomes completed in that step with the time of the step; nodes
\* and dependencies stay, and a node that was deleted is not recreated.
C9_WorkersOnlyStampCompleted ==
  [][api_calls' = api_calls =>
       \/ graph' = graph
       \/ \E n \in Tasks \cap DOMAIN graph :
             /\ Phase(n) # Completed
             /\ pipeline'.tasks[n].phase = Completed
             /\ graph' = [graph EXCEPT ![n].updated_at = Some(now')]]_vars

\* A task has completed after its node was deleted, and the node is absent;
\* another task has failed and its node still carries its earlier stamp.
C9_Witness ==
  \E n, m \in Tasks :
     /\ Phase(n) = Completed
     /\ n \notin DOMAIN graph
     /\ Phase(m) = Failed
     /\ m \in DOMAIN graph
     /\ graph[m].updated_at = Some(0)

\* The nodes below a set of names: the least set holding every node that
\* depends on a name of S or on a node already in it.
RECURSIVE C10_Below(_, _, _)
C10_Below(g, S, acc) ==
  LET more == {n \in DOMAIN g : Range(g[n].dependencies) \cap (S \cup acc) # {}}
  IN  IF more \subseteq acc THEN acc ELSE C10_Below(g, S, acc \cup more)

C10_Reset(g, name) == {name} \cup C10_Below(g, {name}, {})

\* C10: update_node(name) sets updated_at to None on name and on every node
\* below it, and changes nothing else (no other stamp, no dependency list,
\* no node added or removed); a second call in a row changes nothing.
C10_UpdateNodeEffect ==
  /\ [](last.op = "update_node" =>
          /\ DOMAIN graph = DOMAIN last.before
          /\ \A n \in DOMAIN graph :
                /\ graph[n].name = last.before[n].name
                /\ graph[n].dependencies = last.before[n].dependencies
                /\ graph[n].updated_at =
                     IF n \in C10_Reset(last.before, last.name)
                       THEN None
                       ELSE last.before[n].updated_at)
  /\ [][(last.op = "update_node" /\ last'.op = "update_node"
           /\ last'.name = last.name) => graph' = graph]_vars

\* update_node has reset a stamped node that is below the name only through
\* another node, on a graph with a cycle.
C10_Witness ==
  /\ last.op = "update_node"
  /\ ~Acyclic(graph)
  /\ \E n \in DOMAIN graph :
        /\ n # last.name
        /\ last.name \notin Range(graph[n].dependencies)
        /\ last.before[n].updated_at # None
        /\ graph[n].updated_at = None

\* The graph after a successful update of x: same nodes, x and every node
\* below x stale, every other stamp and every other dependency list kept.
C11_Invalidates(x) ==
  /\ DOMAIN graph' = DOMAIN graph
  /\ \A n \in DOMAIN graph :
        /\ graph'[n].updated_at =
             IF n \in C10_Reset(graph', x) THEN None ELSE graph[n].updated_at
        /\ n # x => graph'[n].dependencies = graph[n].dependencies

C12_NamesGloballyUnique == adapters \cap models = {}

\* C13: the graph's node names are the adapter names together with the model
\* names, and each in-memory map has exactly the names of the files of its
\* directory.
C13_FilesMapsNodesAgree ==
  /\ DOMAIN graph = adapters \cup models
  /\ disk.adapters = adapters
  /\ disk.models = models

\* C14: every credential of project.yml is encrypted and every credential of
\* the in-memory Config is plain.
C14_EncryptedAtRest ==
  /\ \A n \in DOMAIN disk.project :
        disk.project[n].secret # None => disk.project[n].secret[1].type = "encrypted"
  /\ \A n \in DOMAIN connections :
        connections[n].secret # None => connections[n].secret[1].type = "plain"

\* The names reached from the names of S through dependency lists.
RECURSIVE C15_Above(_, _, _)
C15_Above(g, S, acc) ==
  LET more == UNION {Range(g[n].dependencies) : n \in (S \cup acc) \cap DOMAIN g}
  IN  IF more \subseteq acc THEN acc ELSE C15_Above(g, S, acc \cup more)

\* C15: run_pipeline_node(N) starts a run whose tasks are N and the names
\* reachable from N through dependency lists (names without a node
\* included), which are N and graph.upstream(N); no other name is a task.
C15_NodeRunTaskSet ==
  [][\A N \in Names :
       Run_pipeline_node(N) =>
         /\ DOMAIN pipeline'.tasks = {N} \cup C15_Above(graph, {N}, {})
         /\ DOMAIN pipeline'.tasks = {N} \cup Range(Upstream(graph, N))
         /\ \A t \in DOMAIN pipeline'.tasks : pipeline'.tasks[t] = TaskStatus_new]_vars

\* A run just started for one node: a name without a node is a task of it,
\* reached only through another task.
C15_Witness ==
  /\ pipeline.phase = Running
  /\ \A w \in Workers : pc[w] = "pop"
  /\ \E N, m, t \in Tasks :
        /\ N \in DOMAIN graph /\ m \in DOMAIN graph /\ t \notin DOMAIN graph
        /\ N # m
        /\ graph[N].dependencies = <<m>>
        /\ graph[m].dependencies = <<t>>

\* C16: once the run has started, no step (of a worker, of the failure
\* cascade, of an API request) adds a task to it or removes one.
C16_TaskSetFixed ==
  [][pipeline.phase # Waiting => DOMAIN pipeline'.tasks = DOMAIN pipeline.tasks]_vars

\* A finished run, the graph as it was at start: the executor failed on a
\* task that has a downstream node outside the task-set.
C16_Witness ==
  /\ pipeline.phase = Completed
  /\ api_calls = 0
  /\ \E u \in Tasks :
        /\ pipeline.tasks[u].error = Some(ExecutorError)
        /\ Range(Downstream(graph, u)) \ Tasks # {}

\* The reply is `status` and the Config, the files and the graph are as before.
C17_Rejected(status) ==
  /\ response' = status
  /\ UNCHANGED <<graph, adapters, models, queries, dashboards, connections, disk>>

\* C17: a create request for a name that exists in its category is answered
\* 409 and changes neither the Config, nor the files, nor the graph.
C17_CreateConflict ==
  [][\A name \in Names :
       /\ (name \in adapters /\ create_adapter(name)) => C17_Rejected(409)
       /\ \A sql \in SqlInputs :
             (name \in models /\ create_model(name, sql)) => C17_Rejected(409)
       /\ \A config \in Bodies :
             /\ (name \in DOMAIN queries /\ create_query(name, config)) => C17_Rejected(409)
             /\ (name \in DOMAIN dashboards /\ create_dashboard(name, config)) => C17_Rejected(409)
       /\ \A config \in ConnInputs :
             (name \in DOMAIN connections /\ create_connection(name, config)) => C17_Rejected(409)]_vars

\* A create request was answered 409 on a project that has a stamped model
\* with a dependency, a query and a connection.
C17_Witness ==
  /\ api_calls = 1
  /\ response = 409
  /\ \E n \in models : graph[n].updated_at # None /\ graph[n].dependencies # <<>>
  /\ DOMAIN queries # {}
  /\ DOMAIN connections # {}

\* The reply is 404, the Config, the files and the graph are as before and
\* no node was reset.
C18_NotFound ==
  /\ response' = 404
  /\ UNCHANGED <<graph, adapters, models, queries, dashboards, connections, disk, inval>>

\* C18: an update or delete request for a name that does not exist in its
\* category is answered 404 and changes neither the Config, nor the files,
\* nor the graph: no node is invalidated or removed.
C18_UpdateDeleteAbsent ==
  [][\A name \in Names :
       /\ name \notin adapters =>
             /\ update_adapter(name) => C18_NotFound
             /\ delete_adapter(name) => C18_NotFound
       /\ name \notin models =>
             /\ \A sql \in SqlInputs : update_model(name, sql) => C18_NotFound
             /\ delete_model(name) => C18_NotFound
       /\ name \notin DOMAIN queries =>
             /\ \A config \in Bodies : update_query(name, config) => C18_NotFound
             /\ delete_query(name) => C18_NotFound
       /\ name \notin DOMAIN dashboards =>
             /\ \A config \in Bodies : update_dashboard(name, config) => C18_NotFound
             /\ delete_dashboard(name) => C18_NotFound
       /\ name \notin DOMAIN connections =>
             /\ \A config \in ConnInputs : update_connection(name, config) => C18_NotFound
             /\ delete_connection(name) => C18_NotFound]_vars

\* A request was answered 404 on a project in which an adapter and a model
\* that reads it are both stamped: the names a request for the other
\* category would have invalidated or removed.
C18_Witness ==
  /\ api_calls = 1
  /\ response = 404
  /\ \E x \in adapters, y \in models :
        /\ x \in Range(graph[y].dependencies)
        /\ graph[x].updated_at # None
        /\ graph[y].updated_at # None

\* The Config, the files and the graph (nodes, dependencies, stamps) are as
\* before and the reply is `status`.
C19_Refused(status) ==
  /\ response' = status
  /\ UNCHANGED <<graph, adapters, models, queries, dashboards, connections, disk, inval>>

\* C19 as stated: a create_model or update_model request whose SQL does not
\* parse is answered 400 and changes neither the graph nor the Config and
\* its files.
C19_BadSqlAlways400 ==
  [][\A name \in Names, sql \in SqlInputs :
       ~sql.valid =>
          /\ create_model(name, sql) => C19_Refused(400)
          /\ update_model(name, sql) => C19_Refused(400)]_vars

\* C19, amended: a create_model or update_model request whose SQL does not
\* parse is answered 400 when the name passes the handler's lookup (not yet a
\* model for a create, a model for an update) and 409, respectively 404, when
\* it does not; in each case the graph, the Config and the files do not change.
C19_BadSqlRejected ==
  [][\A name \in Names, sql \in SqlInputs :
       ~sql.valid =>
          /\ create_model(name, sql) =>
                C19_Refused(IF name \in models THEN 409 ELSE 400)
          /\ update_model(name, sql) =>
                C19_Refused(IF name \in models THEN 400 ELSE 404)]_vars

\* A model request was answered 400 on a project with a stamped model that
\* has a dependency and a stamped node below it.
C19_Witness ==
  /\ api_calls = 1
  /\ response = 400
  /\ \E x \in models, y \in DOMAIN graph :
        /\ graph[x].dependencies # <<>>
        /\ x \in Range(graph[y].dependencies)
        /\ graph[x].updated_at # None
        /\ graph[y].updated_at # None

\* The graph lost the node `name` and nothing else changed in it.
C20_OnlyNodeRemoved(name) ==
  /\ DOMAIN graph' = DOMAIN graph \ {name}
  /\ \A n \in DOMAIN graph' : graph'[n] = graph[n]

\* C20: a successful delete_adapter or delete_model removes the node of that
\* name and no other; every other node keeps its dependency list, a
\* reference to the deleted name included, and its updated_at.
C20_DeleteRemovesOnlyNode ==
  [][\A name \in Names :
       /\ (delete_adapter(name) /\ response' = 204) => C20_OnlyNodeRemoved(name)
       /\ (delete_model(name) /\ response' = 204) => C20_OnlyNodeRemoved(name)]_vars

\* After a delete on a project that had a node for every name: a stamped node
\* still lists the deleted name among its dependencies.
C20_Witness ==
  /\ api_calls = 1
  /\ response = 204
  /\ Cardinality(DOMAIN graph) = Len(NameSeq) - 1
  /\ \E n \in DOMAIN graph :
        /\ graph[n].updated_at # None
        /\ Range(graph[n].dependencies) \ DOMAIN graph # {}

\* ---------------------------------------------------------------- C21
\* C21: once the run has started, after every transition (start, a task set
\* running, completed or failed, each task failed by the cascade, completion of
\* the pipeline) the run's file holds exactly the run state in memory: its
\* phase, its two timestamps and every task's status.  Before the start no
\* file is written.
C21_FileIsRunState ==
  IF pipeline.phase = Waiting
    THEN run_file = None
    ELSE /\ run_file # None
         /\ run_file[1].phase = pipeline.phase
         /\ run_file[1].started_at = pipeline.started_at
         /\ run_file[1].completed_at = pipeline.completed_at
         /\ run_file[1].tasks = pipeline.tasks

\* A finished run in which one task was executed and failed and another was
\* failed by the cascade, as the file shows it.
C21_Witness ==
  /\ pipeline.phase = Completed
  /\ run_file # None
  /\ run_file[1].phase = Completed
  /\ \E t, d \in DOMAIN run_file[1].tasks :
        /\ run_file[1].tasks[t].error = Some(ExecutorError)
        /\ run_file[1].tasks[d].error = Some(UpstreamFailed)
        /\ pipeline.tasks[d].phase = Failed

\* ---------------------------------------------------------------- C28
\* C28: with the graph unmodified during the run, each task's fields agree with
\* its phase: waiting has no started_at, completed_at or error; running has
\* started_at only; completed has started_at and completed_at and no error;
\* failed has an error and no completed_at, and has started_at exactly when
\* the executor was called with the task.
C28_FieldsAgreeWithPhase ==
  \A t \in Tasks :
    LET ts == pipeline.tasks[t] IN
      /\ ts.phase = Waiting =>
            ts.started_at = None /\ ts.completed_at = None /\ ts.error = None
      /\ ts.phase = Running =>
            ts.started_at # None /\ ts.completed_at = None /\ ts.error = None
      /\ ts.phase = Completed =>
            ts.started_at # None /\ ts.completed_at # None /\ ts.error = None
      /\ ts.phase = Failed =>
            /\ ts.error # None
            /\ ts.completed_at = None
            /\ ts.started_at # None <=> invoked[t] # <<>>

\* One task completed, one failed in the executor, one failed by the cascade
\* without having been started.
C28_Witness ==
  \E t, u, d \in Tasks :
    /\ Phase(t) = Completed /\ pipeline.tasks[t].completed_at # None
    /\ Phase(u) = Failed /\ pipeline.tasks[u].started_at # None
    /\ invoked[u] = <<"err">>
    /\ Phase(d) = Failed /\ pipeline.tasks[d].started_at = None
    /\ popped[d] = 0

\* ---------------------------------------------------------------- C22
\* Depth-first pre-order with an explicit stack: the name on top is reported
\* when it is met for the first time, and its dependency list is put on top
\* of the stack in its order.
RECURSIVE C22_Preorder(_, _, _, _)
C22_Preorder(g, stack, seen, out) ==
  IF stack = <<>> THEN out
  ELSE LET x == Head(stack) IN
       IF x \in seen
         THEN C22_Preorder(g, Tail(stack), seen, out)
         ELSE C22_Preorder(g,
                (IF x \in DOMAIN g THEN g[x].dependencies ELSE <<>>) \o Tail(stack),
                seen \cup {x}, out \o <<x>>)

C22_Once(s) == \A i, j \in 1..Len(s) : i # j => s[i] # s[j]

C22_Ascending(s) == \A i, j \in 1..Len(s) : i < j => Rank(s[i]) < Rank(s[j])

\* C22: on every graph (cycles and dangling dependencies included) upstream
\* and downstream return; upstream(name) lists exactly the names reachable
\* from name through dependency lists, each once, in depth-first pre-order
\* of the lists; downstream(name) lists exactly the nodes from which name is
\* reachable, each once, in ascending order.
C22_Traversals ==
  /\ last.op = "upstream" =>
        /\ Range(last.result) = C15_Above(last.before, {last.name}, {})
        /\ C22_Once(last.result)
        /\ last.result =
             C22_Preorder(last.before,
                          IF last.name \in DOMAIN last.before
                            THEN last.before[last.name].dependencies ELSE <<>>,
                          {}, <<>>)
  /\ last.op = "downstream" =>
        /\ Range(last.result) = C10_Below(last.before, {last.name}, {})
        /\ C22_Once(last.result)
        /\ C22_Ascending(last.result)

\* upstream(a) on a cycle through a with a dangling dependency c: the
\* pre-order b, a, c is neither the sorted nor the breadth-first order.
C22_Witness ==
  /\ last.op = "upstream"
  /\ last.name = "a"
  /\ "c" \notin DOMAIN last.before
  /\ last.result = <<"b", "a", "c">>

\* ---------------------------------------------------------------- C23
\* C23: for every plaintext and every key file of exactly 32 bytes,
\* decrypt_string given what encrypt_string returned and the same key file
\* returns the plaintext.
C23_RoundTrip ==
  [][( /\ last.op = "encrypt"
       /\ last.key_file # None
       /\ Len(last.key_file[1]) = KEY_LEN
       /\ last'.op = "decrypt"
       /\ last'.key_file = last.key_file
       /\ last'.input = last.result.value )
     => last'.result = Ok(last.input)]_vars

\* A plaintext with a two-byte character came back from its ciphertext.
C23_Witness ==
  /\ last.op = "decrypt"
  /\ last.key_file # None
  /\ last.result.ok
  /\ last.result.value = <<"U+00E9", "x">>
  /\ last.input.valid
  /\ Len(last.input.bytes) = NONCE_LEN + 3 + TAG_LEN

\* ---------------------------------------------------------------- C24
\* C24: with a key file whose length is not 32 bytes, encrypt_string and
\* decrypt_string fail with the invalid-key-size error whatever the other
\* input is, and return no ciphertext and no plaintext.
C24_InvalidKeyFails ==
  (last.op \in {"encrypt", "decrypt"} /\ last.key_file # None
     /\ Len(last.key_file[1]) # KEY_LEN)
  => (~last.result.ok /\ last.result.error = "Invalid key size")

\* decrypt_string refused a well-formed ciphertext because the key file has
\* one byte too many.
C24_Witness ==
  /\ last.op = "decrypt"
  /\ last.key_file # None
  /\ Len(last.key_file[1]) = KEY_LEN + 1
  /\ last.input.valid
  /\ Len(last.input.bytes) > NONCE_LEN + TAG_LEN
  /\ last.result = Err("Invalid key size")

\* ---------------------------------------------------------------- C25
\* C25: a file adapter whose pattern matches no file imports successfully:
\* import_files with an empty list returns Ok and makes no call on the lake,
\* so no table is created or replaced and the lake is as it was.
C25_EmptyImportIsNoOp ==
  (last.op = "file_import" /\ last.files = Ok(<<>>))
  => /\ last.result = Ok(<<>>)
     /\ last.calls = <<"list_files">>
     /\ last.after = last.before

\* An S3 adapter matched no file for table b while the lake holds table a.
C25_Witness ==
  /\ last.op = "file_import"
  /\ last.kind = "s3"
  /\ last.files = Ok(<<>>)
  /\ last.table_name = "b"
  /\ last.before.tables = {"a"}
  /\ last.after.tables = {"a"}
  /\ last.result.ok

\* ---------------------------------------------------------------- C29
\* C29: in database_import every attach() that succeeded is followed by a
\* detach() before the call returns, whatever table_exists and import_table
\* return: the last call the function makes on the adapter is detach().
C29_AttachThenDetach ==
  (last.op = "database_import" /\ Len(last.calls) > 1)
  => last.calls[Len(last.calls)] = "detach"

\* ---------------------------------------------------------------- C26
\* C26: no task holds the Config or the Graph mutex while it is in a long
\* operation (a pipeline task's import / transform, a schema discovery), so
\* other handlers and other workers' task bodies are not kept waiting for
\* the Config lock and two tasks of a run can execute at the same time.
C26_NoLockDuringLongOperation ==
  \A t \in LockTasks :
    (Ins(t)[1] = "long" /\ Ins(t)[2] \in {"execute", "schema"})
    => (mutex["config"] # Some(t) /\ mutex["graph"] # Some(t))

\* ---------------------------------------------------------------- C27
\* The task that holds the mutex t is waiting for, if t is waiting.
C27_WaitsFor(t) ==
  IF Ins(t)[1] = "lock" THEN mutex[Ins(t)[2]] ELSE None

\* Following who waits for whom from t for k steps never comes to an end.
RECURSIVE C27_Stuck(_, _)
C27_Stuck(t, k) ==
  IF k = 0 THEN TRUE
  ELSE IF C27_WaitsFor(t) = None THEN FALSE
  ELSE C27_Stuck(C27_WaitsFor(t)[1], k - 1)

C27_Holds(t) == {m \in Mutexes : mutex[m] = Some(t)}

\* C27: no interleaving of handlers and workers deadlocks on the three
\* mutexes: no task waits, directly or through others, for a task that
\* waits for it, and some task can always take a step; a task that takes
\* Config or Pipeline holds no mutex, and one that takes Graph holds Config
\* or Pipeline or nothing.
C27_NoDeadlock ==
  /\ \A t \in LockTasks : ~C27_Stuck(t, Cardinality(LockTasks))
  /\ \E t \in LockTasks : Ins(t)[1] # "lock" \/ mutex[Ins(t)[2]] = None
  /\ \A t \in LockTasks :
        /\ (Ins(t)[1] = "lock" /\ Ins(t)[2] \in {"config", "pipeline"})
             => C27_Holds(t) = {}
        /\ (Ins(t)[1] = "lock" /\ Ins(t)[2] = "graph")
             => C27_Holds(t) \in {{}, {"config"}, {"pipeline"}}

\* A worker holding Pipeline waits for Graph, which a handler holds together
\* with Config, while the other worker waits for Pipeline and another request
\* waits for Config.
C27_Witness ==
  /\ Ins(<<"worker", 1>>) = <<"lock", "graph">>
  /\ mutex["pipeline"] = Some(<<"worker", 1>>)
  /\ mutex["graph"] = Some(<<"request", 1>>)
  /\ mutex["config"] = Some(<<"request", 1>>)
  /\ Ins(<<"worker", 2>>) = <<"lock", "pipeline">>
  /\ Ins(<<"request", 2>>) = <<"lock", "config">>

\* ---------------------------------------------------------------- C30
\* No node with updated_at set has an existing node above it, at any
\* distance through dependency lists, with updated_at None.
C30_NoFreshBelowStale ==
  \A n \in DOMAIN graph :
    graph[n].updated_at # None =>
      \A a \in Range(Upstream(graph, n)) \cap DOMAIN graph :
        graph[a].updated_at # None

\* C30: no create, update or delete request on adapters and models puts a
\* fresh node below a stale ancestor: served on a project where no fresh
\* node has a stale ancestor, the request leaves none.
C30_FreshnessPreserved ==
  [][C30_NoFreshBelowStale => C30_NoFreshBelowStale']_vars

====
